---- MODULE Spec2Model ----
(***************************************************************************)
(* A model of the FreeNAS command-line shell, src/src/cli/src/repl.py:     *)
(* the typed variable store (VariableStore), the plugin loader, the        *)
(* namespace attachment and the event printer of Context, the startup      *)
(* sequence of main(), and the read-eval loop and the terminal redraw of   *)
(* MainLoop.                                                               *)
(*                                                                         *)
(* Python strings are sequences of one-character strings, so that the     *)
(* code's indexing, partitioning and integer parsing are computed rather   *)
(* than assumed.  Python lists are objects of a small heap (lists), so     *)
(* that a copy (x[:]) and an alias (x = y) differ.                         *)
(***************************************************************************)
EXTENDS Integers, Sequences, FiniteSets, TLC

VARIABLES
    variables,   \* VariableStore.variables: name -> Variable
    vs_call,     \* history: the last VariableStore.set call and how it ended
    vs_got,      \* history: the last VariableStore.get call since, and its result
    lists,       \* the heap of Python lists: list id -> the list's items
    root_path,   \* MainLoop.root_path, a reference
    path,        \* MainLoop.path, a reference
    oldpath,     \* repl's local oldpath, a reference (NoList while dead)
    pc,          \* where the foreground thread is in repl()
    tokens,      \* repl's local tokens: the positional tokens not yet consumed
    kwargs,      \* repl's local kwargs
    cur,         \* the namespace command the loop is about to run, or runs
    lock,        \* output_lock: who holds it
    calls,       \* history: the run() calls made for the line being handled
    this,        \* history: the line being handled, the stack before it, its outcome
    ev_pc,       \* where the delivery thread is in print_event
    ev_write,    \* history: the last terminal write made for an event
    plugin_dirs, \* Context.plugin_dirs
    plugins,     \* Context.plugins: the paths that are keys of the dict
    plugin_mod,  \* sys.modules['plugin']: which unit's hooks the module holds
    pl_pc,       \* where startup is: config, start, discover, load, started, failed
    dirs_left,   \* discover_plugins: the directories not yet searched
    files_left,  \* __discover_plugin_dir: the paths not yet tried
    execs,       \* history: path -> how often the unit's code was executed
    inits,       \* history: path -> how often the unit's _init was invoked
    loaded,      \* history: the units whose load succeeded, in load order
    subscribed,  \* connection.subscribe_events('*') has been called
    keys_left,   \* login_plugins: the keys of self.plugins not yet visited
    logins,      \* history: the _login calls made, in order
    ml,          \* Context.ml
    ns_tree,     \* the namespace objects: object -> its namespaces() dict
    at_call,     \* history: the last attach_namespace call and the tree before it
    at_log,      \* history: the attach_namespace calls made, in order
    buffer,      \* readline.get_line_buffer(): the text typed at the prompt
    cols         \* the terminal's width in columns (TIOCGWINSZ)

vsVars == <<variables, vs_call, vs_got>>
\* The foreground thread's own state.
fgVars == <<lists, root_path, path, oldpath, pc, tokens, kwargs, cur, calls, this>>
replVars == <<lists, root_path, path, oldpath, pc, tokens, kwargs, cur, lock, calls, this>>
evVars == <<ev_pc, ev_write>>
plVars == <<plugin_dirs, plugins, plugin_mod, pl_pc, dirs_left, files_left, execs, inits,
            loaded, subscribed, keys_left, logins, ml>>
atVars == <<ns_tree, at_call, at_log>>
termVars == <<buffer, cols>>
\* What main() touches once the plugins are discovered.
mainVars == <<loaded, subscribed, keys_left, logins, ml>>

----------------------------------------------------------------------------
(* Python values, as far as the variable store sees them.                  *)

None == [t |-> "none", s |-> <<>>, i |-> 0]
StrV(s) == [t |-> "str", s |-> s, i |-> 0]
IntV(n) == [t |-> "int", s |-> <<>>, i |-> n]
BoolV(b) == [t |-> "bool", s |-> <<>>, i |-> IF b THEN 1 ELSE 0]

\* Python's ==, on the values above (True == 1, and a str equals no number).
PyEq(a, b) ==
    IF a.t = "str" \/ b.t = "str" THEN a.t = b.t /\ a.s = b.s
    ELSE IF a.t = "none" \/ b.t = "none" THEN a.t = b.t
    ELSE a.i = b.i

\* Python's `value in list`.
PyIn(v, list) == \E k \in 1..Len(list) : PyEq(v, list[k])

Digits == {"0", "1", "2", "3", "4", "5", "6", "7", "8", "9"}
DigitVal(c) ==
    CASE c = "0" -> 0 [] c = "1" -> 1 [] c = "2" -> 2 [] c = "3" -> 3
      [] c = "4" -> 4 [] c = "5" -> 5 [] c = "6" -> 6 [] c = "7" -> 7
      [] c = "8" -> 8 [] c = "9" -> 9

RECURSIVE LStrip(_)
LStrip(s) == IF s # <<>> /\ Head(s) = " " THEN LStrip(Tail(s)) ELSE s
RECURSIVE RStrip(_)
RStrip(s) ==
    IF s # <<>> /\ s[Len(s)] = " " THEN RStrip(SubSeq(s, 1, Len(s) - 1)) ELSE s
\* str.strip(), for the blank the model's strings hold.
Strip(s) == RStrip(LStrip(s))

RECURSIVE DecimalValue(_)
DecimalValue(ds) ==
    IF ds = <<>> THEN 0
    ELSE 10 * DecimalValue(SubSeq(ds, 1, Len(ds) - 1)) + DigitVal(ds[Len(ds)])

\* Python 2's int(value): a str is stripped, may carry one sign and must then
\* be one or more decimal digits (ValueError otherwise); an int or a bool is
\* its number; int(None) is a TypeError.
PyInt(value) ==
    CASE value.t = "int" -> [raised |-> "none", val |-> value]
      [] value.t = "bool" -> [raised |-> "none", val |-> IntV(value.i)]
      [] value.t = "none" -> [raised |-> "TypeError", val |-> value]
      [] value.t = "str" ->
            LET body == Strip(value.s)
                signed == body # <<>> /\ Head(body) \in {"+", "-"}
                ds == IF signed THEN Tail(body) ELSE body
            IN  IF ds # <<>> /\ \A k \in 1..Len(ds) : ds[k] \in Digits
                THEN [raised |-> "none",
                      val |-> IntV(IF signed /\ Head(body) = "-"
                                  THEN 0 - DecimalValue(ds)
                                  ELSE DecimalValue(ds))]
                ELSE [raised |-> "ValueError", val |-> value]

----------------------------------------------------------------------------
(* VariableStore                                                           *)

NoChoices == [has |-> FALSE, list |-> <<>>]
Choices(list) == [has |-> TRUE, list |-> list]

\* VariableStore.Variable.__init__
Variable(default, type, choices) ==
    [default |-> default, type |-> type, choices |-> choices, value |-> default]

s_ascii == <<"a", "s", "c", "i", "i">>
s_json == <<"j", "s", "o", "n">>
s_xml == <<"x", "m", "l">>
s_natural == <<"n", "a", "t", "u", "r", "a", "l">>
s_prompt == <<"{", "h", "o", "s", "t", "}", ":", "{", "p", "a", "t", "h", "}", ">">>
\* os.environ['LANG'] of the run.
s_lang == <<"C">>

\* VariableStore.__init__
InitialVariables ==
    [n \in {"output-format", "datetime-format", "language", "prompt",
            "timeout", "show-events"} |->
        CASE n = "output-format" ->
                Variable(StrV(s_ascii), "str", Choices(<<StrV(s_ascii), StrV(s_json)>>))
          [] n = "datetime-format" -> Variable(StrV(s_natural), "str", NoChoices)
          [] n = "language" -> Variable(StrV(s_lang), "str", NoChoices)
          [] n = "prompt" -> Variable(StrV(s_prompt), "str", NoChoices)
          [] n = "timeout" -> Variable(IntV(10), "int", NoChoices)
          [] n = "show-events" -> Variable(BoolV(TRUE), "bool", NoChoices)]

\* A mutant of VariableSet: the value is stored before it is validated.
VariableSet_StoreFirst(var, value) ==
    LET c == IF var.type = "int" THEN PyInt(value)
             ELSE [raised |-> "none", val |-> value]
        stored == [var EXCEPT !.value = value]
    IN  IF c.raised # "none" THEN [raised |-> c.raised, var |-> stored]
        ELSE IF var.choices.has /\ ~PyIn(c.val, var.choices.list)
        THEN [raised |-> "ValueError", var |-> stored]
        ELSE [raised |-> "none", var |-> stored]

\* VariableStore.Variable.set: coerce when the type is int, check the choices.
\* The coerced value stays a local of the method: self.value is not assigned.
VariableSet(var, value) ==
    LET c == IF var.type = "int" THEN PyInt(value)
             ELSE [raised |-> "none", val |-> value]
    IN  IF c.raised # "none" THEN [raised |-> c.raised, var |-> var]
        ELSE IF var.choices.has /\ ~PyIn(c.val, var.choices.list)
        THEN [raised |-> "ValueError", var |-> var]
        ELSE [raised |-> "none", var |-> var]

\* VariableStore.get, for a name of the store.
Get(store, name) == store[name].value

\* The names and values the store's callers pass.
VarNames == DOMAIN InitialVariables \cup {"nosuch"}
VarValues ==
    {StrV(<<"5">>), StrV(<<"1", "2">>), StrV(<<"-", "3">>), StrV(<<" ", "7", " ">>),
     StrV(<<"a", "b", "c">>), StrV(<<>>), StrV(<<"5", ".", "5">>),
     StrV(s_xml), StrV(s_ascii), StrV(s_json), IntV(5), BoolV(FALSE), None}

NoCall == [op |-> "none", name |-> "", arg |-> None, raised |-> "none",
           before |-> InitialVariables]
NoGet == [name |-> "", raised |-> "none", value |-> None]

InitVars ==
    /\ variables = InitialVariables
    /\ vs_call = NoCall
    /\ vs_got = NoGet

\* VariableStore.set(name, value)
StoreSet(name, value) ==
    /\ IF name \notin DOMAIN variables
       THEN /\ vs_call' = [op |-> "set", name |-> name, arg |-> value,
                           raised |-> "KeyError", before |-> variables]
            /\ UNCHANGED variables
       ELSE LET r == VariableSet(variables[name], value)
            IN  /\ variables' = [variables EXCEPT ![name] = r.var]
                /\ vs_call' = [op |-> "set", name |-> name, arg |-> value,
                               raised |-> r.raised, before |-> variables]
    /\ vs_got' = NoGet
    /\ UNCHANGED <<replVars, evVars, plVars, atVars, termVars>>

\* VariableStore.get(name)
StoreGet(name) ==
    /\ vs_got' = IF name \in DOMAIN variables
                 THEN [name |-> name, raised |-> "none",
                       value |-> Get(variables, name)]
                 ELSE [name |-> name, raised |-> "KeyError", value |-> None]
    /\ UNCHANGED <<variables, vs_call>>
    /\ UNCHANGED <<replVars, evVars, plVars, atVars, termVars>>


----------------------------------------------------------------------------
(* The namespace tree the shell walks.  Namespaces and commands come from   *)
(* plugins; the tree below is the input of the read-eval loop.  It holds a  *)
(* plain branch (foo, with the command bar) and a branch whose names        *)
(* collide: baz has a child and a command both called bar, and its child    *)
(* baz has a command called baz.                                            *)

w_foo == <<"f", "o", "o">>
w_bar == <<"b", "a", "r">>
w_baz == <<"b", "a", "z">>
w_x == <<"x">>
w_kv == <<"y", "=", "1">>
w_kempty == <<"k", "=">>
w_quoted == <<"\"", "d", " ", "e", "\"">>
w_open == <<"\"", "d">>
w_dotdot == <<".", ".">>
w_exit == <<"e", "x", "i", "t">>
w_setenv == <<"s", "e", "t", "e", "n", "v">>
w_printenv == <<"p", "r", "i", "n", "t", "e", "n", "v">>

NsIds == {"root", "foo", "baz", "baz/bar", "baz/baz"}

\* ns.namespaces(): child name -> namespace
Namespaces(ns) ==
    CASE ns = "root" -> [n \in {w_foo, w_baz} |-> IF n = w_foo THEN "foo" ELSE "baz"]
      [] ns = "baz" ->
            [n \in {w_bar, w_baz} |-> IF n = w_bar THEN "baz/bar" ELSE "baz/baz"]
      [] OTHER -> [n \in {} |-> "root"]

\* ns.commands(): the command names of a namespace
Commands(ns) ==
    CASE ns = "root" -> {w_bar}
      [] ns = "foo" -> {w_bar}
      [] ns = "baz" -> {w_bar}
      [] ns = "baz/bar" -> {w_foo}
      [] ns = "baz/baz" -> {w_baz}

\* MainLoop.builtin_commands
BuiltinNames == {w_exit, w_setenv, w_printenv}

\* context.hostname
Hostname == <<"h">>

\* PathItem(name, ns)
PathItem(name, ns) == [name |-> name, ns |-> ns]
RootItem == PathItem(Hostname, "root")

----------------------------------------------------------------------------
(* Python lists of PathItems, as objects: a reference is a list id.         *)

ListIds == {0, 1, 2}
NoList == -1

Fresh(live) == CHOOSE i \in ListIds : i \notin live /\ \A j \in ListIds \ live : i <= j

\* A mutant of ListCopy: the list is aliased, not copied (x = y for x = y[:]).
ListAlias(h, src, live) == [h |-> h, ref |-> src]

\* x[:], a new list holding the items of list src
ListCopy(h, src, live) ==
    LET id == Fresh(live) IN [h |-> [h EXCEPT ![id] = h[src]], ref |-> id]

\* A mutant of ListDelLast: the first item is deleted (del x[0]).
ListDelFirst(h, ref) == [h EXCEPT ![ref] = Tail(h[ref])]

\* del x[-1]
ListDelLast(h, ref) == [h EXCEPT ![ref] = SubSeq(h[ref], 1, Len(h[ref]) - 1)]

\* x.append(item)
ListAppend(h, ref, item) == [h EXCEPT ![ref] = Append(h[ref], item)]

\* Lists no reference reaches are gone.
Collect(h, live) == [i \in ListIds |-> IF i \in live THEN h[i] ELSE <<>>]

\* Between two lines only root_path and path are referenced: the heap holds
\* those two lists, the stack's under the first id that is not root_path's.
Settle(h, rp, p) ==
    IF p = rp THEN [h |-> Collect(h, {rp}), ref |-> p]
    ELSE LET id == Fresh({rp})
         IN  [h |-> [i \in ListIds |->
                        IF i = rp THEN h[rp] ELSE IF i = id THEN h[p] ELSE <<>>],
              ref |-> id]

\* MainLoop.cwd
Cwd(h, p) == h[p][Len(h[p])]

----------------------------------------------------------------------------
(* MainLoop.tokenize                                                        *)

Quote == "\""

\* A word that opens a quotation the line never closes.
OpensQuotation(w) == w[1] = Quote /\ (Len(w) = 1 \/ w[Len(w)] # Quote)

\* shlex.split(line, posix=False), on a line given as its words: the words
\* come back as they are, quotes kept; a quotation left open is a ValueError.
ShlexSplit(words) ==
    IF \E k \in 1..Len(words) : OpensQuotation(words[k])
    THEN [raised |-> "ValueError", tokens |-> <<>>]
    ELSE [raised |-> "none", tokens |-> words]

\* The index of the first '=' of t, 0 when there is none.
FirstEq(t) ==
    IF \E k \in 1..Len(t) : t[k] = "="
    THEN CHOOSE k \in 1..Len(t) : t[k] = "=" /\ \A j \in 1..(k - 1) : t[j] # "="
    ELSE 0

\* s[1:-1]
Unquote(s) == SubSeq(s, 2, Len(s) - 1)

\* kwargs[key] = value
DictPut(d, key, value) ==
    [k \in DOMAIN d \cup {key} |-> IF k = key THEN value ELSE d[k]]

EmptyDict == [k \in {} |-> <<>>]

\* The loop body of tokenize, from token k of toks on.
RECURSIVE TokenizeFrom(_, _, _, _)
TokenizeFrom(toks, k, args, kw) ==
    IF k > Len(toks) THEN [raised |-> "none", args |-> args, kwargs |-> kw]
    ELSE LET t == toks[k] IN
         IF t[1] = Quote /\ t[Len(t)] = Quote
         THEN TokenizeFrom(toks, k + 1, Append(args, Unquote(t)), kw)
         ELSE IF FirstEq(t) # 0
         THEN LET key == SubSeq(t, 1, FirstEq(t) - 1)
                  value == SubSeq(t, FirstEq(t) + 1, Len(t))
              IN  IF value = <<>>
                  THEN \* value[0] of an empty string
                       [raised |-> "IndexError", args |-> args, kwargs |-> kw]
                  ELSE TokenizeFrom(toks, k + 1, args,
                          DictPut(kw, key,
                                  IF value[1] = Quote /\ value[Len(value)] = Quote
                                  THEN Unquote(value) ELSE value))
         ELSE TokenizeFrom(toks, k + 1, Append(args, t), kw)

\* MainLoop.tokenize(line)
Tokenize(words) ==
    LET split == ShlexSplit(words)
    IN  IF split.raised # "none"
        THEN [raised |-> split.raised, args |-> <<>>, kwargs |-> EmptyDict]
        ELSE TokenizeFrom(split.tokens, 1, <<>>, EmptyDict)

----------------------------------------------------------------------------
(* MainLoop: the read-eval loop                                             *)

\* The longest line read, in words.
MaxWords == 3

\* The words typed.
Words == {w_foo, w_bar, w_baz, w_x, w_kv, w_kempty, w_quoted, w_open,
          w_dotdot, w_exit, w_setenv}

\* A line as typed and stripped: '/' when anchor, then the words, one blank
\* between two words.
Lines ==
    {[anchor |-> a, words |-> ws] :
        a \in BOOLEAN, ws \in UNION {[1..n -> Words] : n \in 0..MaxWords}}

NoCmd == [ns |-> "", name |-> <<>>]
NoLine == [read |-> FALSE, anchor |-> FALSE, words |-> <<>>, before |-> <<>>,
           start |-> <<>>, outcome |-> "none"]

\* MainLoop.__init__
InitRepl ==
    LET root == [i \in ListIds |-> IF i = 0 THEN <<RootItem>> ELSE <<>>]
        copy == ListCopy(root, 0, {0})
    IN  /\ root_path = 0
        /\ path = copy.ref
        /\ lists = copy.h
        /\ oldpath = NoList
        /\ pc = "prompt"
        /\ tokens = <<>>
        /\ kwargs = EmptyDict
        /\ cur = NoCmd
        /\ lock = "free"
        /\ calls = <<>>
        /\ this = NoLine

\* main() has not made the MainLoop yet: the foreground thread is in main().
InitNoLoop ==
    /\ root_path = NoList
    /\ path = NoList
    /\ lists = [i \in ListIds |-> <<>>]
    /\ oldpath = NoList
    /\ pc = "main"
    /\ tokens = <<>>
    /\ kwargs = EmptyDict
    /\ cur = NoCmd
    /\ lock = "free"
    /\ calls = <<>>
    /\ this = NoLine

\* A mutant of AnchorStep: the anchor is stripped and the stack is kept.
AnchorStep_NoReset(h, line) == [h |-> h, ref |-> path]

\* repl, `if line[0] == '/'`: the stack becomes a copy of root_path.
AnchorStep(h, line) ==
    IF line.anchor THEN ListCopy(h, root_path, {root_path})
    ELSE [h |-> h, ref |-> path]

\* repl, `line == '..'` with `len(self.path) > 1`, once the anchor is stripped.
IsParentStep(h, ref, line) == line.words = <<w_dotdot>> /\ Len(h[ref]) > 1

\* The loop is back at its head: the locals of the iteration are dead.
EndLine(h, p, outcome) ==
    /\ pc' = "prompt"
    /\ path' = Settle(h, root_path, p).ref
    /\ lists' = Settle(h, root_path, p).h
    /\ oldpath' = NoList
    /\ tokens' = <<>>
    /\ kwargs' = EmptyDict
    /\ cur' = NoCmd
    /\ this' = [this EXCEPT !.outcome = outcome]
    /\ UNCHANGED root_path

\* An exception leaves repl(): the foreground thread, and the shell, end.
LeaveLoop(h, p, how, outcome) ==
    /\ pc' = how
    /\ path' = Settle(h, root_path, p).ref
    /\ lists' = Settle(h, root_path, p).h
    /\ oldpath' = NoList
    /\ tokens' = <<>>
    /\ kwargs' = EmptyDict
    /\ cur' = NoCmd
    /\ this' = [this EXCEPT !.outcome = outcome]
    /\ UNCHANGED root_path

\* repl: raw_input(self.__get_prompt()) shows the prompt and waits for a line;
\* readline starts the line with an empty buffer.
ShowPrompt ==
    /\ pc = "prompt"
    /\ pc' = "input"
    /\ this' = NoLine
    /\ calls' = <<>>
    /\ UNCHANGED <<lists, root_path, path, oldpath, tokens, kwargs, cur, lock>>
    /\ buffer' = <<>>
    /\ UNCHANGED <<vsVars, atVars, cols, evVars, plVars>>

\* repl, from the line read to the first token's dispatch: blank line, root
\* anchor, '..', tokenize, oldpath.
ReadLine(line) ==
    /\ UNCHANGED <<vsVars, atVars, termVars, evVars, plVars>>
    /\ LET before == lists[path]
           a == AnchorStep(lists, line)
           tk == Tokenize(line.words)
           saved == ListCopy(a.h, a.ref, {root_path, a.ref})
           rec == [read |-> TRUE, anchor |-> line.anchor, words |-> line.words,
                   before |-> before, start |-> a.h[a.ref], outcome |-> "none"]
       IN  /\ UNCHANGED <<lock, calls>>
           /\ IF ~line.anchor /\ line.words = <<>>
              THEN /\ this' = [rec EXCEPT !.outcome = "blank"]
                   /\ pc' = "prompt"
                   /\ UNCHANGED <<lists, root_path, path, oldpath, tokens, kwargs, cur>>
              ELSE IF IsParentStep(a.h, a.ref, line)
              THEN /\ this' = [rec EXCEPT !.outcome = "parent"]
                   /\ pc' = "prompt"
                   /\ path' = a.ref
                   /\ lists' = Collect(ListDelLast(a.h, a.ref), {root_path, a.ref})
                   /\ UNCHANGED <<root_path, oldpath, tokens, kwargs, cur>>
              ELSE IF tk.raised # "none"
              THEN /\ this' = [rec EXCEPT !.outcome = tk.raised]
                   /\ pc' = "crashed"
                   /\ path' = a.ref
                   /\ lists' = Collect(a.h, {root_path, a.ref})
                   /\ UNCHANGED <<root_path, oldpath, tokens, kwargs, cur>>
              ELSE IF tk.args = <<>>
              THEN /\ this' = [rec EXCEPT !.outcome = "empty"]
                   /\ pc' = "prompt"
                   /\ path' = a.ref
                   /\ lists' = Collect(a.h, {root_path, a.ref})
                   /\ UNCHANGED <<root_path, oldpath, tokens, kwargs, cur>>
              ELSE /\ this' = rec
                   /\ pc' = "dispatch"
                   /\ path' = a.ref
                   /\ oldpath' = saved.ref
                   /\ lists' = Collect(saved.h, {root_path, a.ref, saved.ref})
                   /\ tokens' = tk.args
                   /\ kwargs' = tk.kwargs
                   /\ UNCHANGED <<root_path, cur>>

Call(ns, name, args, kw, result) ==
    [ns |-> ns, name |-> name, args |-> args, kwargs |-> kw, result |-> result]

\* repl, one turn of `while tokens:` up to output_lock.acquire(): the builtin
\* test, the namespace lookup and cd, the command lookup, and the else branch
\* when no command matched.  fault: which lookup raises, if any; result: how a
\* builtin's run() ends.
DispatchToken(fault, result) ==
    /\ pc = "dispatch"
    /\ UNCHANGED <<vsVars, atVars, termVars, evVars, plVars>>
    /\ LET token == Head(tokens)
           rest == Tail(tokens)
           nss == Namespaces(Cwd(lists, path).ns)
           nsfound == token \in DOMAIN nss
           h1 == IF nsfound
                 THEN ListAppend(lists, path, PathItem(token, nss[token]))
                 ELSE lists
           newcwd == Cwd(h1, path)
       IN  /\ UNCHANGED lock
           /\ IF token \in BuiltinNames
              THEN /\ calls' = Append(calls, Call("builtin", token, rest, kwargs,
                                  IF token = w_exit THEN "exit" ELSE result))
                   /\ IF token = w_exit THEN LeaveLoop(lists, path, "exited", "exit")
                      ELSE IF result = "raise"
                      THEN LeaveLoop(lists, path, "crashed", "builtin raised")
                      ELSE EndLine(lists, path, "builtin")
              ELSE IF fault = "namespaces"
              THEN /\ EndLine(lists, path, "error")
                   /\ UNCHANGED calls
              ELSE IF fault = "commands"
              THEN /\ EndLine(h1, path, "error")
                   /\ UNCHANGED calls
              ELSE IF token \in Commands(newcwd.ns)
              THEN /\ pc' = "acquire"
                   /\ cur' = [ns |-> newcwd.ns, name |-> token]
                   /\ tokens' = rest
                   /\ lists' = h1
                   /\ UNCHANGED <<root_path, path, oldpath, kwargs, calls, this>>
              ELSE IF ~nsfound
              THEN /\ EndLine(lists, path, "notfound")
                   /\ UNCHANGED calls
              ELSE IF rest = <<>>
              THEN /\ EndLine(h1, path, "descended")
                   /\ UNCHANGED calls
              ELSE /\ tokens' = rest
                   /\ lists' = h1
                   /\ UNCHANGED <<root_path, path, oldpath, pc, kwargs, cur, calls, this>>

\* repl: output_lock.acquire() before cmd.run.  output_lock is the mutex of
\* the output module: acquire waits while a thread, the caller included,
\* holds it.
AcquireLock ==
    /\ pc = "acquire"
    /\ lock = "free"
    /\ lock' = "fg"
    /\ pc' = "run"
    /\ UNCHANGED <<lists, root_path, path, oldpath, tokens, kwargs, cur, calls, this>>
    /\ UNCHANGED <<vsVars, atVars, termVars, evVars, plVars>>

\* repl: cmd.run(self.context, tokens, kwargs) ends.  When it returns:
\* cmdfound, output_lock.release(), self.path = oldpath, break.  When it
\* raises: the except clause reports and breaks, and release() is skipped.
RunCommand(result) ==
    /\ pc = "run"
    /\ UNCHANGED <<vsVars, atVars, termVars, evVars, plVars>>
    /\ calls' = Append(calls, Call(cur.ns, cur.name, tokens, kwargs, result))
    /\ IF result = "return"
       THEN /\ lock' = "free"
            /\ EndLine(lists, oldpath, "ok")
       ELSE /\ UNCHANGED lock
            /\ EndLine(lists, path, "error")

----------------------------------------------------------------------------
(* Context.print_event, on the connection's delivery thread                 *)

\* sep.join(names)
RECURSIVE Join(_, _)
Join(names, sep) ==
    IF names = <<>> THEN <<>>
    ELSE IF Len(names) = 1 THEN names[1]
    ELSE names[1] \o sep \o Join(Tail(names), sep)

\* MainLoop.__get_prompt
GetPrompt(stack) ==
    Join([k \in DOMAIN stack |-> stack[k].name], <<"/">>) \o <<">", " ">>

\* blank_readline: how often '\x1b[1A\x1b[2K' (one row up, clear it) is
\* written after the current row is cleared; Python 2's / on two ints.
BlankRows(buf, width) == (Len(buf) + 2) \div width

\* restore_readline: the text written
RestoreText(stack, buf) == GetPrompt(stack) \o RStrip(buf)

\* Context.ml while no MainLoop is assigned (None), and once one is.
NoMl == "None"
TheMl == "MainLoop"

NoWrite == [what |-> "none", lock |-> "free", fg |-> "prompt", rows |-> 0,
            text |-> <<>>, typed |-> <<>>]

InitEvents ==
    /\ ev_pc = "idle"
    /\ ev_write = NoWrite

\* The process runs: startup has not failed, and repl() has neither exited
\* nor died of an exception.
Alive == pc \notin {"crashed", "exited"} /\ pl_pc # "failed"

\* The terminal write `what`, made with the output lock and the line buffer
\* as they are: the rows an erase clears above the current one, the text a
\* redraw writes.
TerminalWrite(what, rows, text) ==
    [what |-> what, lock |-> lock, fg |-> pc, rows |-> rows, text |-> text,
     typed |-> buffer]

\* The connection calls the callback registered by on_event, for an event
\* of the subscription.
EventArrives ==
    /\ Alive
    /\ subscribed
    /\ UNCHANGED <<vsVars, atVars, termVars, fgVars, plVars>>
    /\ ev_pc = "idle"
    /\ ev_pc' = "blank"
    /\ UNCHANGED <<ev_write, lock>>

\* print_event: self.ml.blank_readline() writes the erase sequences; while
\* self.ml is None the attribute lookup raises AttributeError and the
\* callback ends.
BlankReadline ==
    /\ Alive
    /\ UNCHANGED <<vsVars, atVars, termVars, fgVars, plVars>>
    /\ ev_pc = "blank"
    /\ IF ml = NoMl
       THEN /\ ev_pc' = "failed"
            /\ UNCHANGED ev_write
       ELSE /\ ev_write' = TerminalWrite("erase", BlankRows(buffer, cols), <<>>)
            /\ ev_pc' = "acquire"
    /\ UNCHANGED lock

\* print_event: output_lock.acquire()
EventAcquire ==
    /\ Alive
    /\ UNCHANGED <<vsVars, atVars, termVars, fgVars, plVars>>
    /\ ev_pc = "acquire"
    /\ lock = "free"
    /\ lock' = "ev"
    /\ ev_pc' = "output"
    /\ UNCHANGED ev_write

\* print_event: output_msg(events.translate(event, data))
OutputMsg ==
    /\ Alive
    /\ UNCHANGED <<vsVars, atVars, termVars, fgVars, plVars>>
    /\ ev_pc = "output"
    /\ ev_write' = TerminalWrite("event", 0, <<>>)
    /\ ev_pc' = "release"
    /\ UNCHANGED lock

\* print_event: output_lock.release()
EventRelease ==
    /\ Alive
    /\ UNCHANGED <<vsVars, atVars, termVars, fgVars, plVars>>
    /\ ev_pc = "release"
    /\ lock' = "free"
    /\ ev_pc' = "restore"
    /\ UNCHANGED ev_write

\* print_event: self.ml.restore_readline() writes the prompt and the buffer.
RestoreReadline ==
    /\ Alive
    /\ UNCHANGED <<vsVars, atVars, termVars, fgVars, plVars>>
    /\ ev_pc = "restore"
    /\ ev_write' = TerminalWrite("redraw", 0, RestoreText(lists[path], buffer))
    /\ ev_pc' = "idle"
    /\ UNCHANGED lock

----------------------------------------------------------------------------------------------------------------------------------------------------------------------------------------------------------------
(* Context: the plugin loader                                               *)

\* The most directories a configuration file lists.
MaxDirs == 3

\* The plugin directories there are, and the units (*.py files) in each.
Dirs == {"d1", "d2"}
Units(dir) == IF dir = "d1" THEN {"d1/a.py", "d1/b.py"} ELSE {"d2/c.py", "d2/d.py"}
Paths == UNION {Units(d) : d \in Dirs}

\* The hooks a unit's code defines.
Defines(unit) ==
    CASE unit = "d1/a.py" -> {"_init", "_login"}
      [] unit = "d1/b.py" -> {"_login"}
      [] unit = "d2/c.py" -> {"_init"}
      [] unit = "d2/d.py" -> {"_init", "_login"}

NoUnit == "none"

\* The orders in which glob.glob1(dir, "*.py") may list a directory: the
\* order of os.listdir is arbitrary.
Listings(dir) ==
    {l \in [1..Cardinality(Units(dir)) -> Units(dir)] :
        \A i, j \in DOMAIN l : i # j => l[i] # l[j]}

\* Context.__init__
InitPlugins ==
    /\ plugin_dirs = <<>>
    /\ plugins = {}
    /\ plugin_mod = [init |-> NoUnit, login |-> NoUnit]
    /\ pl_pc = "config"
    /\ dirs_left = <<>>
    /\ files_left = <<>>
    /\ execs = [p \in Paths |-> 0]
    /\ inits = [p \in Paths |-> 0]
    /\ loaded = <<>>
    /\ subscribed = FALSE
    /\ keys_left = <<>>
    /\ logins = <<>>
    /\ ml = NoMl

\* The configuration documents read_config_file may find: unreadable or
\* malformed, without 'cli', without 'plugin-dirs', 'plugin-dirs' not a
\* list, or a list of directories.
Configs ==
    {[kind |-> k, dirs |-> <<>>] : k \in {"unreadable", "nocli", "nodirs", "notlist"}}
    \cup {[kind |-> "list", dirs |-> ds] :
            ds \in UNION {[1..n -> Dirs] : n \in 0..MaxDirs}}

\* Context.read_config_file(file)
ReadConfigFile(cfg) ==
    /\ pl_pc = "config"
    /\ IF cfg.kind = "unreadable"
       THEN pl_pc' = "failed" /\ UNCHANGED plugin_dirs
       ELSE /\ pl_pc' = "start"
            /\ plugin_dirs' = IF cfg.kind = "list" THEN plugin_dirs \o cfg.dirs
                              ELSE plugin_dirs
    /\ UNCHANGED <<plugins, plugin_mod, dirs_left, files_left, execs, inits>>
    /\ UNCHANGED <<vsVars, atVars, termVars, replVars, evVars, mainVars>>

\* Context.start -> discover_plugins: the loop over plugin_dirs begins.
DiscoverPlugins ==
    /\ pl_pc = "start"
    /\ dirs_left' = plugin_dirs
    /\ pl_pc' = "discover"
    /\ UNCHANGED <<plugin_dirs, plugins, plugin_mod, files_left, execs, inits>>
    /\ UNCHANGED <<vsVars, atVars, termVars, replVars, evVars, mainVars>>

\* discover_plugins, one turn: __discover_plugin_dir(dir) lists the directory;
\* after the last directory start() goes on to connect().
DiscoverPluginDir ==
    /\ pl_pc = "discover"
    /\ IF dirs_left = <<>>
       THEN /\ pl_pc' = "started"
            /\ UNCHANGED <<dirs_left, files_left>>
       ELSE /\ \E l \in Listings(Head(dirs_left)) : files_left' = l
            /\ dirs_left' = Tail(dirs_left)
            /\ pl_pc' = "load"
    /\ UNCHANGED <<plugin_dirs, plugins, plugin_mod, execs, inits>>
    /\ UNCHANGED <<vsVars, atVars, termVars, replVars, evVars, mainVars>>

\* imp.load_source('plugin', path): Python 2 executes the unit's code in the
\* module object sys.modules['plugin'] when there is one, as reload() does,
\* so the hooks of units loaded before stay unless this unit defines its own.
LoadSource(mod, unit) ==
    [init |-> IF "_init" \in Defines(unit) THEN unit ELSE mod.init,
     login |-> IF "_login" \in Defines(unit) THEN unit ELSE mod.login]

\* __try_load_plugin: `self.plugins[path] = plugin` is in the body of
\* `if hasattr(plugin, '_init')`.
Recorded(mod) == mod.init # NoUnit

\* Context.__try_load_plugin(path), for the next path of the listing.
\* fault: what raises, the unit's code ("source"), its _init ("init") or nothing.
TryLoadPlugin(fault) ==
    /\ pl_pc = "load"
    /\ files_left # <<>>
    /\ LET unit == Head(files_left)
           mod == LoadSource(plugin_mod, unit)
           next == IF Tail(files_left) = <<>> THEN "discover" ELSE "load"
       IN  IF unit \in plugins
           THEN /\ files_left' = Tail(files_left)
                /\ pl_pc' = next
                /\ UNCHANGED <<plugins, plugin_mod, execs, inits, loaded>>
           ELSE /\ execs' = [execs EXCEPT ![unit] = @ + 1]
                /\ IF fault = "source"
                   THEN /\ pl_pc' = "failed"
                        /\ UNCHANGED <<plugins, plugin_mod, inits, files_left, loaded>>
                   ELSE /\ plugin_mod' = mod
                        /\ IF mod.init # NoUnit
                           THEN inits' = [inits EXCEPT ![mod.init] = @ + 1]
                           ELSE UNCHANGED inits
                        /\ IF mod.init # NoUnit /\ fault = "init"
                           THEN /\ pl_pc' = "failed"
                                /\ UNCHANGED <<plugins, files_left, loaded>>
                           ELSE /\ plugins' = IF Recorded(mod) THEN plugins \cup {unit}
                                              ELSE plugins
                                /\ loaded' = Append(loaded, unit)
                                /\ files_left' = Tail(files_left)
                                /\ pl_pc' = next
    /\ UNCHANGED <<plugin_dirs, dirs_left>>
    /\ UNCHANGED <<subscribed, keys_left, logins, ml>>
    /\ UNCHANGED <<vsVars, atVars, termVars, replVars, evVars>>

\* What the loader leaves alone once discovery is over.
loaderVars == <<plugin_dirs, plugins, plugin_mod, dirs_left, files_left, execs, inits, loaded>>

\* Context.connect: the callbacks are registered and the connection is made,
\* or connection.connect raises.
Connect(ok) ==
    /\ pl_pc = "started"
    /\ pl_pc' = IF ok THEN "connected" ELSE "failed"
    /\ UNCHANGED <<loaderVars, mainVars>>
    /\ UNCHANGED <<vsVars, atVars, termVars, replVars, evVars>>

\* main: `if args.l:` and connection.login_user(args.l, args.p).
\* given: a login name is on the command line; ok: login_user returns.
LoginUser(given, ok) ==
    /\ pl_pc = "connected"
    /\ pl_pc' = IF ~given THEN "mainloop" ELSE IF ok THEN "subscribe" ELSE "failed"
    /\ UNCHANGED <<loaderVars, mainVars>>
    /\ UNCHANGED <<vsVars, atVars, termVars, replVars, evVars>>

\* main: connection.subscribe_events('*')
SubscribeEvents ==
    /\ pl_pc = "subscribe"
    /\ subscribed' = TRUE
    /\ pl_pc' = "login_plugins"
    /\ UNCHANGED <<loaderVars, keys_left, logins, ml>>
    /\ UNCHANGED <<vsVars, atVars, termVars, replVars, evVars>>

\* The orders in which self.plugins.values() may visit the dict: a Python 2
\* dict is visited in the order of its hash table, not of insertion.
DictOrders(keys) ==
    {l \in [1..Cardinality(keys) -> keys] :
        \A i, j \in DOMAIN l : i # j => l[i] # l[j]}

\* self.plugins[key]: every key holds the module imp.load_source returned,
\* which is the one module object sys.modules['plugin'].
PluginValue(mod, key) == mod

\* Context.login_plugins: the loop over self.plugins.values() begins.
LoginPlugins ==
    /\ pl_pc = "login_plugins"
    /\ \E l \in DictOrders(plugins) : keys_left' = l
    /\ pl_pc' = "login"
    /\ UNCHANGED <<loaderVars, subscribed, logins, ml>>
    /\ UNCHANGED <<vsVars, atVars, termVars, replVars, evVars>>

\* login_plugins, one turn: `if hasattr(i, '_login'): i._login(self)`; after
\* the last value main goes on.  fault: the hook raises.
LoginPlugin(fault) ==
    /\ pl_pc = "login"
    /\ IF keys_left = <<>>
       THEN /\ pl_pc' = "mainloop"
            /\ UNCHANGED <<keys_left, logins>>
       ELSE LET i == PluginValue(plugin_mod, Head(keys_left))
            IN  /\ keys_left' = Tail(keys_left)
                /\ IF i.login # NoUnit
                   THEN /\ logins' = Append(logins, [key |-> Head(keys_left),
                                                     hook |-> i.login])
                        /\ pl_pc' = IF fault THEN "failed" ELSE pl_pc
                   ELSE UNCHANGED <<logins, pl_pc>>
    /\ UNCHANGED <<loaderVars, subscribed, ml>>
    /\ UNCHANGED <<vsVars, atVars, termVars, replVars, evVars>>

\* main: ml = MainLoop(context), which is MainLoop.__init__.
CreateMainLoop ==
    /\ pl_pc = "mainloop"
    /\ LET root == [i \in ListIds |-> IF i = 0 THEN <<RootItem>> ELSE <<>>]
           copy == ListCopy(root, 0, {0})
       IN  /\ root_path' = 0
           /\ path' = copy.ref
           /\ lists' = copy.h
    /\ pl_pc' = "assign"
    /\ UNCHANGED <<oldpath, pc, tokens, kwargs, cur, lock, calls, this>>
    /\ UNCHANGED <<loaderVars, mainVars>>
    /\ UNCHANGED <<vsVars, atVars, termVars, evVars>>

\* main: context.ml = ml, and ml.repl() is entered.
AssignMl ==
    /\ pl_pc = "assign"
    /\ ml' = TheMl
    /\ pl_pc' = "repl"
    /\ pc' = "prompt"
    /\ UNCHANGED <<lists, root_path, path, oldpath, tokens, kwargs, cur, lock, calls, this>>
    /\ UNCHANGED <<loaderVars, loaded, subscribed, keys_left, logins>>
    /\ UNCHANGED <<vsVars, atVars, termVars, evVars>>

\* main() has reached ml.repl(): the state startup ends in when the
\* configuration names no plugin directory and a login is given.
InitStarted ==
    /\ plugin_dirs = <<>>
    /\ plugins = {}
    /\ plugin_mod = [init |-> NoUnit, login |-> NoUnit]
    /\ pl_pc = "repl"
    /\ dirs_left = <<>>
    /\ files_left = <<>>
    /\ execs = [p \in Paths |-> 0]
    /\ inits = [p \in Paths |-> 0]
    /\ loaded = <<>>
    /\ subscribed = TRUE
    /\ keys_left = <<>>
    /\ logins = <<>>
    /\ ml = TheMl

\* The longest text typed at a prompt, and the characters typed.
MaxBuffer == 3
Keys == {"a", " "}

\* The user types a character while raw_input waits: readline appends it to
\* its line buffer.
TypeChar(c) ==
    /\ pc = "input"
    /\ Len(buffer) < MaxBuffer
    /\ buffer' = Append(buffer, c)
    /\ UNCHANGED cols
    /\ UNCHANGED <<vsVars, atVars, replVars, evVars, plVars>>

\* The terminal of the shell's first prompt: nothing typed.
InitTerm ==
    /\ buffer = <<>>
    /\ cols = 8

\* The navigation stacks and the terminal widths the redraw is tried with.
Stacks ==
    {<<RootItem>>, <<RootItem, PathItem(w_foo, "foo")>>,
     <<RootItem, PathItem(w_baz, "baz"), PathItem(w_bar, "baz/bar")>>}
Widths == {4, 8}

\* The shell waiting at a prompt somewhere in the tree, nothing typed yet.
InitAtPrompt ==
    /\ \E stack \in Stacks :
          lists = [i \in ListIds |->
                     IF i = 0 THEN <<RootItem>> ELSE IF i = 1 THEN stack ELSE <<>>]
    /\ root_path = 0
    /\ path = 1
    /\ oldpath = NoList
    /\ pc = "input"
    /\ tokens = <<>>
    /\ kwargs = EmptyDict
    /\ cur = NoCmd
    /\ lock = "free"
    /\ calls = <<>>
    /\ this = NoLine
    /\ buffer = <<>>
    /\ cols \in Widths

----------------------------------------------------------------------------
(* Context.attach_namespace, as the plugins' _init hooks call it            *)

\* The namespace objects the plugins make, and the most attach calls made.
MaxNs == 3
MaxAttach == 3

\* self.root_ns, and the objects the plugins pass.
RootNs == 0
NsObjs == 1..MaxNs

p_root == <<"/">>
p_a == <<"/", "a">>
p_b == <<"/", "b">>
p_ab == <<"/", "a", "/", "b">>
p_ba == <<"/", "b", "/", "a">>
p_aba == <<"/", "a", "/", "b", "/", "a">>

\* The paths the plugins pass: absolute, as splitpath[1:-1] takes them.
AttachPaths == {p_root, p_a, p_b, p_ab, p_ba, p_aba}

NoChildren == [n \in {} |-> RootNs]
NoAttach == [op |-> "none", path |-> <<>>, ns |-> RootNs, raised |-> FALSE,
             warned |-> FALSE, before |-> [o \in {RootNs} \cup NsObjs |-> NoChildren]]

\* Context.__init__: self.root_ns = RootNamespace(); no object has a child.
InitAttach ==
    /\ ns_tree = [o \in {RootNs} \cup NsObjs |-> NoChildren]
    /\ at_call = NoAttach
    /\ at_log = <<>>

\* str.split(sep), for a separator of one character
RECURSIVE SplitFrom(_, _, _, _)
SplitFrom(s, sep, k, word) ==
    IF k > Len(s) THEN <<word>>
    ELSE IF s[k] = sep THEN <<word>> \o SplitFrom(s, sep, k + 1, <<>>)
    ELSE SplitFrom(s, sep, k + 1, Append(word, s[k]))
Split(s, sep) == SplitFrom(s, sep, 1, <<>>)

\* A mutant of Intermediate: the first segment is walked too (splitpath[:-1]).
Intermediate_FromFirst(splitpath) == SubSeq(splitpath, 1, Len(splitpath) - 1)

\* splitpath[1:-1]
Intermediate(splitpath) == SubSeq(splitpath, 2, Len(splitpath) - 1)

\* attach_namespace, the loop `for n in splitpath[1:-1]`: found is FALSE when
\* the loop ends in `return`.
RECURSIVE WalkFrom(_, _, _)
WalkFrom(tree, ptr, segs) ==
    IF segs = <<>> THEN [found |-> TRUE, ptr |-> ptr]
    ELSE IF Head(segs) \notin DOMAIN tree[ptr]
    THEN [found |-> FALSE, ptr |-> ptr]
    ELSE WalkFrom(tree, tree[ptr][Head(segs)], Tail(segs))

\* ptr.register_namespace(name, ns): ns becomes the child `name` of ptr.
RegisterNamespace(tree, ptr, name, ns) ==
    [tree EXCEPT ![ptr] = [n \in DOMAIN tree[ptr] \cup {name} |->
                              IF n = name THEN ns ELSE tree[ptr][n]]]

\* The objects that are a child of some object of the tree.
Registered(tree) == UNION {{tree[o][n] : n \in DOMAIN tree[o]} : o \in DOMAIN tree}

\* Context.attach_namespace(path, ns)
AttachNamespace(apath, ns) ==
    /\ Len(at_log) < MaxAttach
    /\ LET splitpath == Split(apath, "/")
           w == WalkFrom(ns_tree, RootNs, Intermediate(splitpath))
           name == splitpath[Len(splitpath)]
       IN  \* names are unique: what is passed is not in the tree yet
           /\ ns \notin Registered(ns_tree)
           /\ w.found => name \notin DOMAIN ns_tree[w.ptr]
           /\ ns_tree' = IF w.found THEN RegisterNamespace(ns_tree, w.ptr, name, ns)
                          ELSE ns_tree
           /\ at_call' = [op |-> "attach", path |-> apath, ns |-> ns, raised |-> FALSE,
                           warned |-> ~w.found, before |-> ns_tree]
           /\ at_log' = Append(at_log, [path |-> apath, ns |-> ns])
    /\ UNCHANGED <<vsVars, replVars, evVars, plVars, termVars>>

----------
(* The specifications                                                       *)

vars == <<variables, vs_call, vs_got,
          lists, root_path, path, oldpath, pc, tokens, kwargs, cur, lock, calls, this,
          ev_pc, ev_write,
          plugin_dirs, plugins, plugin_mod, pl_pc, dirs_left, files_left, execs, inits,
          loaded, subscribed, keys_left, logins, ml,
          ns_tree, at_call, at_log, buffer, cols>>

\* The shell at its first prompt.
Init ==
    /\ InitVars
    /\ InitRepl
    /\ InitEvents
    /\ InitStarted
    /\ InitAttach
    /\ InitTerm

\* The process at the first statement of main().
InitMain ==
    /\ InitVars
    /\ InitNoLoop
    /\ InitEvents
    /\ InitPlugins
    /\ InitAttach
    /\ InitTerm

\* The shell at a prompt, with a line being typed.
InitTyping ==
    /\ InitVars
    /\ InitAtPrompt
    /\ InitEvents
    /\ InitStarted
    /\ InitAttach

VarSet == \E name \in VarNames, value \in VarValues : StoreSet(name, value)
VarGet == \E name \in VarNames : StoreGet(name)

\* The variable store under its callers.
NextVars ==
    \/ VarSet
    \/ VarGet

SpecVars == Init /\ [][NextVars]_vars

Read == pc = "input" /\ \E line \in Lines : ReadLine(line)
Dispatch ==
    \E fault \in {"none", "namespaces", "commands"}, result \in {"return", "raise"} :
        DispatchToken(fault, result)
Run == \E result \in {"return", "raise"} : RunCommand(result)

\* The read-eval loop alone: no event is delivered.
Next ==
    \/ ShowPrompt
    \/ Read
    \/ Dispatch
    \/ AcquireLock
    \/ Run

Spec == Init /\ [][Next]_vars

\* The longest line read while events are delivered, in words.
EventWords == 1

ReadShort ==
    /\ pc = "input"
    /\ \E line \in {l \in Lines : Len(l.words) <= EventWords} : ReadLine(line)

\* The read-eval loop and the delivery thread, interleaved.
NextEvents ==
    \/ ShowPrompt
    \/ ReadShort
    \/ Dispatch
    \/ AcquireLock
    \/ Run
    \/ EventArrives
    \/ BlankReadline
    \/ EventAcquire
    \/ OutputMsg
    \/ EventRelease
    \/ RestoreReadline

SpecEvents == Init /\ [][NextEvents]_vars

ReadConfig == \E cfg \in Configs : ReadConfigFile(cfg)
TryLoad == \E fault \in {"none", "source", "init"} : TryLoadPlugin(fault)

DoConnect == \E ok \in BOOLEAN : Connect(ok)
DoLogin == \E given, ok \in BOOLEAN : LoginUser(given, ok)
DoLoginPlugin == \E fault \in BOOLEAN : LoginPlugin(fault)

\* Startup: main() reads the configuration, start() discovers the plugins
\* and connects, main() logs in and makes the MainLoop.  No event arrives.
NextPlugins ==
    \/ ReadConfig
    \/ DiscoverPlugins
    \/ DiscoverPluginDir
    \/ TryLoad
    \/ DoConnect
    \/ DoLogin
    \/ SubscribeEvents
    \/ LoginPlugins
    \/ DoLoginPlugin
    \/ CreateMainLoop
    \/ AssignMl

SpecPlugins == InitMain /\ [][NextPlugins]_vars

\* Startup, and the delivery thread beside it.
NextStartup ==
    \/ ReadConfig
    \/ DiscoverPlugins
    \/ DiscoverPluginDir
    \/ TryLoad
    \/ DoConnect
    \/ DoLogin
    \/ SubscribeEvents
    \/ LoginPlugins
    \/ DoLoginPlugin
    \/ CreateMainLoop
    \/ AssignMl
    \/ EventArrives
    \/ BlankReadline
    \/ EventAcquire
    \/ OutputMsg
    \/ EventRelease
    \/ RestoreReadline

SpecStartup == InitMain /\ [][NextStartup]_vars

Attach == \E apath \in AttachPaths, ns \in NsObjs : AttachNamespace(apath, ns)

\* The plugins' _init hooks attach their namespaces.
NextAttach ==
    \/ Attach

SpecAttach == Init /\ [][NextAttach]_vars

Type == \E c \in Keys : TypeChar(c)

\* The user types at a prompt while events are delivered.
NextTerminal ==
    \/ Type
    \/ EventArrives
    \/ BlankReadline
    \/ EventAcquire
    \/ OutputMsg
    \/ EventRelease
    \/ RestoreReadline

SpecTerminal == InitTyping /\ [][NextTerminal]_vars

----------------------------------------------------------------------------
(* The claims                                                               *)

\* The value a successful set is to store: the argument, coerced to an
\* integer when the variable's declared type is int.
Coerced(var, value) == IF var.type = "int" THEN PyInt(value).val ELSE value

\* A get of the variable just set, made after a set that returned normally.
GetAfterSet ==
    /\ vs_call.op = "set"
    /\ vs_call.raised = "none"
    /\ vs_got.name = vs_call.name
    /\ vs_got.raised = "none"

\* C1: after set(name, v) returns normally, get(name) returns the coerced v;
\* set('timeout', '5') then get('timeout') yields the integer 5.
C1_SetThenGet ==
    GetAfterSet =>
        vs_got.value = Coerced(vs_call.before[vs_call.name], vs_call.arg)

\* The arguments of VarValues that int() refuses, and the members of the
\* choice list of 'output-format', written out.
NotIntegers ==
    {StrV(<<"a", "b", "c">>), StrV(<<>>), StrV(<<"5", ".", "5">>), StrV(s_xml),
     StrV(s_ascii), StrV(s_json), None}
OutputFormats == {StrV(s_ascii), StrV(s_json)}

\* C2: set fails when the declared type is integer and the value is not
\* integer-coercible, or when the value is not in the declared choice set;
\* after a failed set, get of every variable returns what it returned before.
C2_RejectedSet ==
    vs_call.op = "set" =>
        /\ (vs_call.name = "timeout" /\ vs_call.arg \in NotIntegers)
              => vs_call.raised # "none"
        /\ (vs_call.name = "output-format" /\ vs_call.arg \notin OutputFormats)
              => vs_call.raised # "none"
        /\ vs_call.raised # "none" =>
              /\ \A n \in DOMAIN variables :
                    Get(variables, n) = Get(vs_call.before, n)
              /\ (vs_got # NoGet /\ vs_got.raised = "none")
                    => vs_got.value = Get(vs_call.before, vs_got.name)

\* set('output-format', 'xml') was refused, and output-format was read since.
C2_Witness ==
    /\ vs_call.op = "set"
    /\ vs_call.name = "output-format"
    /\ vs_call.arg = StrV(s_xml)
    /\ vs_call.raised = "ValueError"
    /\ vs_got.name = "output-format"
    /\ vs_got.value = StrV(s_ascii)

\* The navigation stack and the saved root path, as lists of frames.
Stack == lists[path]
RootStack == lists[root_path]

\* The line read has been handled and the next prompt is about to be shown.
LineDone == pc = "prompt" /\ this.read

\* The namespace reached from ns through the child names `names`, "" when a
\* name is no child of the namespace reached so far.
RECURSIVE Resolve(_, _)
Resolve(ns, names) ==
    IF names = <<>> THEN ns
    ELSE IF Head(names) \in DOMAIN Namespaces(ns)
    THEN Resolve(Namespaces(ns)[Head(names)], Tail(names))
    ELSE ""

\* The positional tokens `args`, from the namespace `ns`, are k child
\* namespaces and then a command of the last one and of nothing else there,
\* none of them a builtin name.
IsDispatchLine(ns, args, k) ==
    /\ k < Len(args)
    /\ \A j \in 1..(k + 1) : args[j] \notin BuiltinNames
    /\ Resolve(ns, SubSeq(args, 1, k)) # ""
    /\ args[k + 1] \in Commands(Resolve(ns, SubSeq(args, 1, k)))
    /\ args[k + 1] \notin DOMAIN Namespaces(Resolve(ns, SubSeq(args, 1, k)))

\* C3: a line 'ns1 ... nsk cmd a1 ... am k1=v1 ...' invokes cmd exactly once,
\* with the tokens after cmd and the keyword mapping of the line, and once it
\* has returned the stack is the stack as it was before dispatch.
C3_EndToEndDispatch ==
    (LineDone /\ this.outcome \in {"ok", "notfound", "descended"}) =>
        LET tk == Tokenize(this.words)
            top == this.start[Len(this.start)].ns
        IN  \A k \in 0..Len(tk.args) :
                IsDispatchLine(top, tk.args, k) =>
                    /\ calls = <<Call(Resolve(top, SubSeq(tk.args, 1, k)),
                                      tk.args[k + 1],
                                      SubSeq(tk.args, k + 2, Len(tk.args)),
                                      tk.kwargs, "return")>>
                    /\ Stack = this.start

\* C4: a line that is exactly '..' pops exactly the top frame when the depth
\* is greater than 1, and leaves the stack unchanged when the depth is 1.
C4_ParentNavigation ==
    (LineDone /\ ~this.anchor /\ this.words = <<w_dotdot>>) =>
        IF Len(this.before) > 1
        THEN Stack = SubSeq(this.before, 1, Len(this.before) - 1)
        ELSE Stack = this.before

\* '..' was typed two levels below the root and the stack is one level below.
C4_Witness ==
    /\ LineDone
    /\ ~this.anchor
    /\ this.words = <<w_dotdot>>
    /\ Len(this.before) = 3
    /\ Stack = <<RootItem, PathItem(w_baz, "baz")>>

\* C5: a line that starts with '/' resets the stack to the single root frame
\* before any token is dispatched, whatever the depth; the line '/' leaves
\* the shell at root and runs nothing.
C5_RootAnchor ==
    (this.read /\ this.anchor) =>
        /\ this.start = <<RootItem>>
        /\ (LineDone /\ this.words = <<>>) => (Stack = <<RootItem>> /\ calls = <<>>)

\* '/' was typed below the root.
C5_Witness ==
    /\ LineDone
    /\ this.anchor
    /\ this.words = <<>>
    /\ Len(this.before) > 1
    /\ Stack = <<RootItem>>

\* C6: the stack is never empty, its frame 0 is the root frame, and the
\* saved root path is never changed.
C6_RootFrame ==
    /\ Len(Stack) >= 1
    /\ Stack[1] = RootItem
    /\ RootStack = <<RootItem>>

\* A line failed two levels below the root, after lines that descended.
C6_Witness ==
    /\ LineDone
    /\ this.outcome = "error"
    /\ Len(this.before) = 2
    /\ Len(Stack) = 3

\* C7: whatever fails while a line is handled, the failure does not leave the
\* read-eval loop.
C7_FailureIsolation == pc # "crashed"

\* C8: when handling a line ends in an error, the stack at the next prompt
\* is the stack as it was before the line's tokens were dispatched.
C8_NoHalfDescendedPath ==
    (LineDone /\ this.outcome \in {"notfound", "error"}) => Stack = this.start

\* C9: no terminal write for an event is made while the foreground holds the
\* output lock for a command.
C9_EventWritesSerialized ==
    ~(ev_write.what # "none" /\ ev_write.lock = "fg" /\ ev_write.fg = "run")

\* C10: the code of a unit is executed at most once per path, however often
\* the path is tried.
C10_IdempotentLoad == \A p \in Paths : execs[p] <= 1

\* main() has logged in and login_plugins has returned.
LoginDone == subscribed /\ pl_pc \in {"mainloop", "assign", "repl"}

\* The units whose load succeeded, and how often the _login a unit defines
\* was invoked.
LoadedUnits == {loaded[k] : k \in DOMAIN loaded}
LoginCount(u) == Cardinality({k \in DOMAIN logins : logins[k].hook = u})

\* C11: no _login is invoked before all units are loaded and the login call
\* has completed, and once login_plugins has returned the _login of every
\* successfully loaded unit that defines one has been invoked exactly once,
\* also when the unit defines no _init.
C11_LoginHookCoverage ==
    /\ logins # <<>> => (subscribed /\ dirs_left = <<>> /\ files_left = <<>>)
    /\ LoginDone =>
          \A u \in LoadedUnits : "_login" \in Defines(u) => LoginCount(u) = 1

\* C12: when unit A was loaded before unit B, both are kept in the plugin
\* map and both define _login, the _login call made for A comes before the
\* one made for B.
C12_LoginHookOrder ==
    LoginDone =>
        \A a, b \in DOMAIN loaded :
            (/\ a < b
             /\ loaded[a] # loaded[b]
             /\ {loaded[a], loaded[b]} \subseteq plugins
             /\ "_login" \in Defines(loaded[a])
             /\ "_login" \in Defines(loaded[b]))
            => \E i, j \in DOMAIN logins :
                  /\ i < j
                  /\ logins[i].key = loaded[a]
                  /\ logins[j].key = loaded[b]

\* The names a path gives after the root: '/a/b' names a, then b.
Segments(p) == Tail(Split(p, "/"))
ParentOf(names) == SubSeq(names, 1, Len(names) - 1)

\* The object the names lead to from obj in tree, NoObj (no object of the
\* tree) when a name is no child of the object reached so far.
NoObj == RootNs - 1
RECURSIVE Lookup(_, _, _)
Lookup(tree, obj, names) ==
    IF names = <<>> THEN obj
    ELSE IF Head(names) \in DOMAIN tree[obj]
    THEN Lookup(tree, tree[obj][Head(names)], Tail(names))
    ELSE NoObj

\* What a tree contains: the name paths that lead somewhere, each with the
\* namespace it leads to.
SegNames == {<<>>, <<"a">>, <<"b">>}
NamePaths == UNION {[1..n -> SegNames] : n \in 1..3}
Contents(tree) ==
    {[names |-> q, ns |-> Lookup(tree, RootNs, q)] :
        q \in {x \in NamePaths : Lookup(tree, RootNs, x) # NoObj}}

\* The namespaces of the first k attach calls whose parent path existed
\* when they were attached, each at its path.
RECURSIVE Kept(_)
Kept(k) ==
    IF k = 0 THEN {}
    ELSE LET before == Kept(k - 1)
             names == Segments(at_log[k].path)
         IN  IF ParentOf(names) = <<>> \/ \E e \in before : e.names = ParentOf(names)
             THEN before \cup {[names |-> names, ns |-> at_log[k].ns]}
             ELSE before

C14_RedrawPreservesLine ==
    ev_write.what = "redraw" => ev_write.text = GetPrompt(Stack) \o ev_write.typed

\* C19: whenever print_event is invoked, Context.ml refers to the MainLoop,
\* and print_event never fails for lack of one.
C19_EventHasMainLoop ==
    /\ ev_pc = "blank" => ml = TheMl
    /\ ev_pc # "failed"

\* The classification of the words from word k on: a word in double
\* quotes is positional, unquoted; any other word with '=' is a keyword,
\* split at its first '=', the value unquoted when in double quotes and
\* possibly empty, a later key replacing an earlier one; any other word is
\* positional as it is.
RECURSIVE ClassifyFrom(_, _, _, _)
ClassifyFrom(words, k, positional, keyword) ==
    IF k > Len(words) THEN [args |-> positional, kwargs |-> keyword]
    ELSE LET w == words[k]
             eq == FirstEq(w)
             value == SubSeq(w, eq + 1, Len(w))
             quoted(x) == Len(x) >= 2 /\ x[1] = Quote /\ x[Len(x)] = Quote
         IN  IF quoted(w)
             THEN ClassifyFrom(words, k + 1, Append(positional, Unquote(w)), keyword)
             ELSE IF eq # 0
             THEN ClassifyFrom(words, k + 1, positional,
                     DictPut(keyword, SubSeq(w, 1, eq - 1),
                             IF quoted(value) THEN Unquote(value) ELSE value))
             ELSE ClassifyFrom(words, k + 1, Append(positional, w), keyword)

\* C15: for every line that splits into words, tokenize is defined, and the
\* positional tokens and the keyword mapping the dispatch loop works on are
\* the classification of the line's words.
C15_TokenizerClassification ==
    (this.read /\ ShlexSplit(this.words).raised = "none") =>
        LET c == ClassifyFrom(this.words, 1, <<>>, EmptyDict)
        IN  /\ this.outcome # "IndexError"
            /\ pc \in {"dispatch", "acquire", "run"} =>
                  /\ kwargs = c.kwargs
                  /\ Len(tokens) <= Len(c.args)
                  /\ tokens = SubSeq(c.args, Len(c.args) - Len(tokens) + 1, Len(c.args))

\* C16: once the loop has finished handling a line, the foreground does not
\* hold the output lock.
C16_LockReleased == pc \in {"prompt", "input"} => lock # "fg"

\* C17: each token consumed does one thing: when a command is about to run,
\* the tokens consumed are the frames pushed and the one token that named
\* the command.
C17_OneActionPerToken ==
    pc \in {"acquire", "run"} =>
        Len(Tokenize(this.words).args) - Len(tokens) = Len(Stack) - Len(this.start) + 1

\* C18: with a prompt of p characters, b characters typed and c columns,
\* p + b no multiple of c, the erase clears the current row and exactly
\* (p + b) \div c rows above it.  (The stack and the width stay as they are
\* while a line is typed.)
C18_EraseCoversLine ==
    ev_write.what = "erase" =>
        LET p == Len(GetPrompt(Stack))
            b == Len(ev_write.typed)
        IN  (p + b) % cols # 0 => ev_write.rows = (p + b) \div cols

====
